---------------------------- MODULE Spec2Model ----------------------------
(***************************************************************************)
(* Two-pass resonance scanner of Ultrasonic_Transducer_Scanner_Version2.ino *)
(* as a state machine.                                                      *)
(*                                                                          *)
(* Conventions                                                              *)
(*  - Frequencies are in Hz, as in the sketch.  All of them stay far below  *)
(*    2^32, so the unsigned arithmetic of the sketch never wraps here.      *)
(*  - An amplitude (float, ampere, in the sketch) is an integer number of   *)
(*    milliampere.  A float comparison a >= m * 0.08f is the integer        *)
(*    comparison 100 * a >= 8 * m.                                          *)
(*  - One measurement burst (SAMPLES_PER_FREQ calls of measureCurrent) sees *)
(*    a steady signal: all its raw swings (imax - imin) are equal, so the   *)
(*    average of the burst is the peak current of one call.                 *)
(*  - The arrays freqs[], amplitudes[] and fineTargets[] are sequences that *)
(*    hold the live prefix [0 .. count-1]; the sketch never reads an        *)
(*    element at or beyond the count.  Index i of the sketch is i + 1 here. *)
(*  - millis() is read through the differences the sketch computes:         *)
(*    sinceDebounce = millis() - lastDebounceTime, sinceSample = millis() - *)
(*    lastSampleTime, sinceFineSample = millis() - fineLastSampleTime, each *)
(*    saturated just above the threshold it is compared with.               *)
(*  - loop() is three consecutive steps: the button poll (pc = "loop"), the *)
(*    sweep dispatch (pc = "sweep") and, when the coarse phase ends, the    *)
(*    part of processCoarseSweep after prepareFineTargets (pc = "prepared").*)
(***************************************************************************)
EXTENDS Integers, Sequences, FiniteSets

VARIABLES
    START_FREQ, END_FREQ,       \* band chosen in setup()
    transducer,                 \* the load: what the current sensor will read
    resonantFreq, maxAmplitude, currAmplitude, resonantIpk, resonantIpp,
    testRunning, testComplete,
    freqs, amplitudes, dataPoints,
    totalSteps, stepIndex, storeEvery, currentTestFreq,
    bestHarmFreq, bestHarmAmp,
    sinceDebounce, lastButtonState, buttonState,
    sinceSample,
    coarsePhase, finePhase,
    fineTargets, fineTargetCount, currentFineIndex,
    fineSweepFreq, fineSweepEnd, fineSweepStep, sinceFineSample,
    lastIpp, lastIpk,
    pwmFreq, pwmDuty,           \* frequency generator: analogWriteFreq / analogWrite
    pc

bandVars   == <<START_FREQ, END_FREQ, transducer>>
resultVars == <<resonantFreq, maxAmplitude, resonantIpk, resonantIpp,
                bestHarmFreq, bestHarmAmp>>
curveVars  == <<freqs, amplitudes, dataPoints>>
coarseVars == <<totalSteps, stepIndex, storeEvery, currentTestFreq, sinceSample>>
targetVars == <<fineTargets, fineTargetCount, currentFineIndex>>
fineVars   == <<fineSweepFreq, fineSweepEnd, fineSweepStep, sinceFineSample>>
sensorVars == <<currAmplitude, lastIpp, lastIpk>>
phaseVars  == <<testRunning, testComplete, coarsePhase, finePhase>>
buttonVars == <<sinceDebounce, lastButtonState, buttonState>>
pwmVars    == <<pwmFreq, pwmDuty>>
sweepVars  == <<resultVars, curveVars, totalSteps, stepIndex, storeEvery,
                currentTestFreq, targetVars, fineSweepFreq, fineSweepEnd,
                fineSweepStep, sensorVars, coarsePhase, finePhase, pwmVars>>
vars == <<bandVars, resultVars, curveVars, coarseVars, targetVars, fineVars,
          sensorVars, phaseVars, buttonVars, pwmVars, pc>>

----------------------------------------------------------------------------
(* Program constants                                                        *)

FREQ_STEP == 50
STABILIZE_DELAY == 15
FINE_WINDOW == 1000
FINE_STEP == 10
MAX_FINE_TARGETS == 3
MAX_DATA_POINTS == 70
debounceDelay == 50
PWM_DUTY == 128

(* Bounds of the model                                                      *)

\* Milliseconds that pass between two calls of loop() when time passes at all.
LoopMs == 30

\* ADC counts a noisy burst reads above the load's response.
NoiseSwing == 3

Min(a, b) == IF a < b THEN a ELSE b
Max(a, b) == IF a > b THEN a ELSE b
Abs(a) == IF a < 0 THEN -a ELSE a

\* The element of a one-element set.  A loop below is a recursive operator
\* whose next iteration is Only({ Loop(x) : x \in {value} }): the loop
\* variable x is bound to the value itself, computed once.
Only(S) == CHOOSE x \in S : TRUE

----------------------------------------------------------------------------
(* The loads the scanner is run on                                          *)

\* The three bands of the sketch.
bands == << <<20000, 46000>>, <<46000, 65000>>, <<65000, 85000>> >>

\* A load answers a drive frequency f with a raw ADC swing (imax - imin): each
\* resonance lobe is a triangle of height h counts around pos that loses one
\* count every w Hz; lobes do not add up, the strongest one shows.  At the
\* frequencies in noisy a burst may also read NoiseSwing counts more.
Lobe(pos, h, w) == [pos |-> pos, h |-> h, w |-> w]

LobeSwing(l, f) == Max(0, l.h - (Abs(f - l.pos) \div l.w))

SetMax(S) == IF S = {} THEN 0 ELSE CHOOSE y \in S : \A z \in S : z <= y

Swing(lobes, f) == SetMax({LobeSwing(l, f) : l \in lobes})

\* A band selected in setup() and the load on it.
Load(band, lobes, noisy) == [band |-> band, lobes |-> lobes, noisy |-> noisy]

SingleLobe == Load(bands[1], {Lobe(32000, 100, 50)}, {})
HarmonicPair ==
    Load(bands[1], {Lobe(22000, 100, 20), Lobe(44000, 30, 20)}, {22000, 43990})
Silent == Load(bands[1], {}, {})
FourLobes ==
    Load(bands[1], {Lobe(32120, 100, 20), Lobe(25200, 50, 20),
                    Lobe(40000, 40, 20), Lobe(44000, 30, 20)}, {})
TwoRivals == Load(bands[2], {Lobe(50000, 80, 20), Lobe(60010, 79, 20)}, {60010})
BandEdges == Load(bands[3], {Lobe(65000, 40, 50), Lobe(85000, 90, 50)}, {})
\* A fundamental with a flat top near the low edge of the band and a weaker
\* resonance at about twice its frequency.
FlatTopPair ==
    Load(bands[1], {Lobe(20500, 100, 100), Lobe(40800, 30, 20)}, {})
\* The same small swing, one ADC count, at every frequency.
FlatBelowFloor == Load(bands[1], {Lobe(33000, 1, 100000)}, {})

Loads ==
    { SingleLobe, HarmonicPair, Silent, FourLobes, TwoRivals, BandEdges,
      FlatTopPair, FlatBelowFloor }

----------------------------------------------------------------------------
(* measureCurrent(): peak and peak-to-peak current, in milliampere, of a raw *)
(* swing of sw ADC counts (0 .. 4095): vpp = sw / ADC_MAX * VREF, i_pp =    *)
(* vpp / ACS_SENSITIVITY = sw * 50 / 4095 A, i_peak = i_pp / 2.             *)

measureCurrent(sw) ==
    [lastIpp |-> (sw * 50000) \div 4095,
     lastIpk |-> (sw * 25000) \div 4095]

----------------------------------------------------------------------------
(* prepareFineTargets()                                                     *)

\* minPeakAmp, times 100: maxAmplitude * pct / 100, floored at 0.01 A.
MinPeakAmp100(maxAmp, pct) ==
    IF maxAmp * pct < 1000 THEN 1000 ELSE maxAmp * pct

\* for (i = 1; i < dataPoints - 1; i++): the strict local maxima at or above
\* the threshold, in index order.  At most dataPoints - 2 of them exist, so
\* the break at MAX_DATA_POINTS peaks is never taken.
CollectPeaks(fr, am, min100) ==
    LET IsPeak(i) == /\ am[i] > am[i - 1]
                     /\ am[i] > am[i + 1]
                     /\ am[i] * 100 >= min100
        Peak(i) == [idx |-> i, amp |-> am[i], f |-> fr[i]]
    IN IF Len(am) < 3 THEN << >>
       ELSE Only({ [p \in 1..Len(found) |-> Peak(found[p])] :
                     found \in {SelectSeq([k \in 1..(Len(am) - 2) |-> k + 1],
                                          IsPeak)} })

\* Inner loop of the selection sort: for (j = i + 1; j < peakCount; j++).
RECURSIVE BestFrom(_, _, _)
BestFrom(peaks, best, j) ==
    IF j > Len(peaks) THEN best
    ELSE Only({ BestFrom(peaks, b, j + 1) :
                  b \in {IF peaks[j].amp > peaks[best].amp THEN j ELSE best} })

\* Outer loop: for (i = 0; i < peakCount - 1; i++), swapping peaks[i] with the
\* best of the rest.
RECURSIVE SortPeaks(_, _)
SortPeaks(peaks, i) ==
    IF i > Len(peaks) - 1 THEN peaks
    ELSE Only({ SortPeaks(swapped, i + 1) :
                  swapped \in {[peaks EXCEPT ![i] = peaks[best],
                                             ![best] = peaks[i]] :
                               best \in {BestFrom(peaks, i, i + 1)}} })

DedupWindow == FREQ_STEP * 4

\* if ((f > resonantFreq + window) || (f + window < resonantFreq))
OutsideResonance(f, resFreq, window) ==
    (f > resFreq + window) \/ (f + window < resFreq)

\* for (t = 0; t < fineTargetCount; t++) if (abs(center - f) <= window) dup
IsDup(targets, f) ==
    \E t \in 1..Len(targets) : Abs(targets[t].center - f) <= DedupWindow

\* Accepts without either window test.
AcceptsAnyPeak(targets, f, resFreq) == TRUE

\* if ((f > resonantFreq + window) || (f + window < resonantFreq)) { ...
\* if (!dup) { ... } }
Accepts(targets, f, resFreq) ==
    OutsideResonance(f, resFreq, DedupWindow) /\ ~IsDup(targets, f)

Target(center, bestFreq, bestAmp) ==
    [center |-> center, bestFreq |-> bestFreq, bestAmp |-> bestAmp, used |-> TRUE]

\* TargetsFull without the cap.
TargetsNeverFull(targets) == FALSE

\* !(fineTargetCount < MAX_FINE_TARGETS)
TargetsFull(targets) == Len(targets) >= MAX_FINE_TARGETS

\* for (p = 0; p < peakCount && fineTargetCount < MAX_FINE_TARGETS; p++)
RECURSIVE AddTargets(_, _, _, _)
AddTargets(peaks, p, resFreq, targets) ==
    IF p > Len(peaks) \/ TargetsFull(targets) THEN targets
    ELSE LET f == peaks[p].f
         IN Only({ AddTargets(peaks, p + 1, resFreq, accepted) :
                     accepted \in {IF Accepts(targets, f, resFreq)
                                   THEN Append(targets,
                                               Target(f, f, peaks[p].amp))
                                   ELSE targets} })

\* PrepareFineTargets without the seeding of target 0 from the maximum.
PrepareFromPeaksOnly(fr, am, resFreq, maxAmp) ==
    IF resFreq = 0 \/ Len(fr) < 3 THEN << >>
    ELSE Only({ AddTargets(sorted, 1, resFreq, << >>) :
                  sorted \in {SortPeaks(peaks, 1) :
                              peaks \in {CollectPeaks(fr, am,
                                             MinPeakAmp100(maxAmp, 8))}} })

\* NothingToRefine without the test of the number of stored points.
NothingToRefineWithoutResonance(fr, resFreq) == resFreq = 0

\* if (resonantFreq == 0 || dataPoints < 3) return; with fineTargetCount = 0
NothingToRefine(fr, resFreq) == resFreq = 0 \/ Len(fr) < 3

\* The targets prepareFineTargets leaves in fineTargets[0 .. fineTargetCount-1].
PrepareFineTargets(fr, am, resFreq, maxAmp) ==
    IF NothingToRefine(fr, resFreq) THEN << >>
    ELSE Only({ AddTargets(sorted, 1, resFreq,
                           << Target(resFreq, resFreq, maxAmp) >>) :
                  sorted \in {SortPeaks(peaks, 1) :
                              peaks \in {CollectPeaks(fr, am,
                                             MinPeakAmp100(maxAmp, 8))}} })

----------------------------------------------------------------------------
(* startFineTarget(index), for 0 <= index < fineTargetCount: the narrow     *)
(* sweep's window and the target's reset best point.                        *)

FineStartOf(center) ==
    IF center > FINE_WINDOW THEN center - FINE_WINDOW ELSE START_FREQ

FineEndOf(center) ==
    IF center + FINE_WINDOW > END_FREQ THEN END_FREQ ELSE center + FINE_WINDOW

ResetTarget(targets, index) ==
    [targets EXCEPT ![index].bestFreq = targets[index].center,
                    ![index].bestAmp = 0]

----------------------------------------------------------------------------
(* computeBestHarmonicFromCoarse() and computeBestHarmonicFromFine()        *)

\* (int)round(a / b) for a >= 0, b > 0: halves round away from zero.
RoundRatio(a, b) == (2 * a + b) \div (2 * b)

\* NearInteger without the test n >= 2.
NearIntegerFromOne(a, b, tolPct) ==
    LET n == RoundRatio(a, b)
    IN n >= 1 /\ Abs(a - n * b) * 100 <= tolPct * b

\* n = round(a / b) >= 2 and fabs(a / b - n) <= tolPct / 100
NearInteger(a, b, tolPct) ==
    LET n == RoundRatio(a, b)
    IN n >= 2 /\ Abs(a - n * b) * 100 <= tolPct * b

Harm(f, amp) == [freq |-> f, amp |-> amp]

\* for (p = 0; p < peakCount; p++): the harmonic and the subharmonic test of
\* one curve peak, each keeping the strongest match so far.
RECURSIVE MatchPeaks(_, _, _, _)
MatchPeaks(peaks, p, resFreq, best) ==
    IF p > Len(peaks) THEN best
    ELSE LET f == peaks[p].f
             a == peaks[p].amp
         IN Only({ MatchPeaks(peaks, p + 1, resFreq, down) :
                     down \in {IF NearInteger(resFreq, f, 12) /\ a > up.amp
                               THEN Harm(f, a) ELSE up :
                               up \in {IF NearInteger(f, resFreq, 12)
                                          /\ a > best.amp
                                       THEN Harm(f, a) ELSE best}} })

FundamentalWindow == FREQ_STEP * 3

\* if (bestHarmFreq == 0): for (i = 0; i < dataPoints; i++) over the curve
\* points outside the window around the fundamental.  bestAmp starts at 0 and
\* is replaced only by a strictly larger amplitude, so the loop ends on the
\* first of the points of largest amplitude, if that amplitude is positive.
BestOutside(fr, am, resFreq) ==
    LET outside == { i \in 1..Len(fr) :
                       /\ OutsideResonance(fr[i], resFreq, FundamentalWindow)
                       /\ am[i] > 0 }
    IN IF outside = {} THEN Harm(0, 0)
       ELSE Only({ Harm(fr[i], am[i]) :
                     i \in { k \in outside :
                               \A j \in outside :
                                  \/ am[j] < am[k]
                                  \/ am[j] = am[k] /\ k <= j } })

\* ResetHarm without the reset: the values the globals hold at the call.
KeepHarm(prev) == prev

\* bestHarmFreq = 0; bestHarmAmp = 0; at the head of both classifiers, whatever
\* the globals held (prev) when the classifier was called.
ResetHarm(prev) == Harm(0, 0)

\* The globals (bestHarmFreq, bestHarmAmp) as a classifier finds them.
HarmNow == Harm(bestHarmFreq, bestHarmAmp)

\* The (bestHarmFreq, bestHarmAmp) computeBestHarmonicFromCoarse leaves.
ComputeBestHarmonicFromCoarse(prev, fr, am, resFreq, maxAmp) ==
    IF resFreq = 0 \/ Len(fr) < 3 THEN ResetHarm(prev)
    ELSE Only({ IF matched.freq # 0 THEN matched
                ELSE Only({ IF other.freq # 0 THEN other ELSE matched :
                              other \in {BestOutside(fr, am, resFreq)} }) :
                  matched \in {MatchPeaks(peaks, 1, resFreq, ResetHarm(prev)) :
                               peaks \in {CollectPeaks(fr, am,
                                              MinPeakAmp100(maxAmp, 12))}} })

\* One refined target as a candidate: skipped when empty or within FINE_STEP of
\* the fundamental; otherwise taken when stronger than the best so far, by the
\* harmonic test, the subharmonic test or the unconditional last test.
FineCandidate(t, resFreq, best) ==
    LET f == t.bestFreq
        amp == t.bestAmp
    IN IF f = 0 \/ amp <= 0 THEN best
       ELSE IF Abs(f - resFreq) <= FINE_STEP THEN best
       ELSE IF NearInteger(f, resFreq, 8) /\ amp > best.amp THEN Harm(f, amp)
       ELSE IF NearInteger(resFreq, f, 8) /\ amp > best.amp THEN Harm(f, amp)
       ELSE IF amp > best.amp THEN Harm(f, amp)
       ELSE best

\* for (t = 0; t < fineTargetCount; t++)
RECURSIVE MatchTargets(_, _, _, _)
MatchTargets(targets, t, resFreq, best) ==
    IF t > Len(targets) THEN best
    ELSE Only({ MatchTargets(targets, t + 1, resFreq, b) :
                  b \in {FineCandidate(targets[t], resFreq, best)} })

\* The (bestHarmFreq, bestHarmAmp) computeBestHarmonicFromFine leaves.
ComputeBestHarmonicFromFine(prev, targets, fr, am, resFreq, maxAmp) ==
    IF resFreq = 0 THEN ResetHarm(prev)
    ELSE Only({ IF fine.freq = 0
                THEN ComputeBestHarmonicFromCoarse(fine, fr, am, resFreq, maxAmp)
                ELSE fine :
                  fine \in {MatchTargets(targets, 1, resFreq,
                                        ResetHarm(prev))} })

----------------------------------------------------------------------------
(* State after setup(): the band is chosen, the generator is stopped, and    *)
(* the delays of setup() have let every interval elapse.                    *)

InitOn(loads) ==
    /\ \E load \in loads :
          /\ START_FREQ = load.band[1]
          /\ END_FREQ = load.band[2]
          /\ transducer = [lobes |-> load.lobes, noisy |-> load.noisy]
    /\ resonantFreq = 0 /\ maxAmplitude = 0 /\ currAmplitude = 0
    /\ resonantIpk = 0 /\ resonantIpp = 0
    /\ testRunning = FALSE /\ testComplete = FALSE
    /\ freqs = << >> /\ amplitudes = << >> /\ dataPoints = 0
    /\ totalSteps = 0 /\ stepIndex = 0 /\ storeEvery = 1 /\ currentTestFreq = 0
    /\ bestHarmFreq = 0 /\ bestHarmAmp = 0
    /\ sinceDebounce = debounceDelay + 1
    /\ lastButtonState = "HIGH" /\ buttonState = "HIGH"
    /\ sinceSample = STABILIZE_DELAY
    /\ coarsePhase = FALSE /\ finePhase = FALSE
    /\ fineTargets = << >> /\ fineTargetCount = 0 /\ currentFineIndex = 0
    /\ fineSweepFreq = 0 /\ fineSweepEnd = 0 /\ fineSweepStep = FINE_STEP
    /\ sinceFineSample = STABILIZE_DELAY
    /\ lastIpp = 0 /\ lastIpk = 0
    /\ pwmFreq = 0 /\ pwmDuty = 0
    /\ pc = "loop"

Init == InitOn(Loads)

\* setFrequency(freq) and stopPWM()
setFrequency(freq) == pwmFreq' = freq /\ pwmDuty' = PWM_DUTY
stopPWM == pwmDuty' = 0 /\ pwmFreq' = pwmFreq

\* An interval of the clock after dt more milliseconds, saturated at cap.
Elapsed(since, dt, cap) == Min(since + dt, cap)

----------------------------------------------------------------------------
(* startTwoPassTest()                                                       *)

TotalStepsOf ==
    IF END_FREQ > START_FREQ /\ FREQ_STEP > 0
    THEN (END_FREQ - START_FREQ) \div FREQ_STEP + 1
    ELSE 1

StoreEveryOf(total) ==
    LET every == (total + (MAX_DATA_POINTS - 1)) \div MAX_DATA_POINTS
    IN IF every < 1 THEN 1 ELSE every

startTwoPassTest ==
    /\ maxAmplitude' = 0 /\ resonantFreq' = 0
    /\ resonantIpk' = 0 /\ resonantIpp' = 0
    /\ bestHarmFreq' = 0 /\ bestHarmAmp' = 0
    /\ dataPoints' = 0 /\ freqs' = << >> /\ amplitudes' = << >>
    /\ currentTestFreq' = START_FREQ
    /\ totalSteps' = TotalStepsOf
    /\ stepIndex' = 0
    /\ storeEvery' = StoreEveryOf(TotalStepsOf)
    /\ setFrequency(START_FREQ)
    /\ sinceSample' = 0
    /\ coarsePhase' = TRUE /\ finePhase' = FALSE
    /\ fineTargetCount' = 0 /\ fineTargets' = << >>
    /\ currentFineIndex' = 0

----------------------------------------------------------------------------
(* loop(), first part: the START button with its debounce.                  *)

\* ShouldStart without the test of testComplete.
ShouldStartWhenComplete(state) == state = "LOW" /\ ~testRunning

\* ShouldStart without the test of testRunning.
ShouldStartWhenRunning(state) == state = "LOW" /\ ~testComplete

\* if (buttonState == LOW && !testRunning && !testComplete)
ShouldStart(state) == state = "LOW" /\ ~testRunning /\ ~testComplete

\* else if (buttonState == LOW && testComplete)
ShouldReset(state) == state = "LOW" /\ testComplete

\* reading is digitalRead(START_PIN); dt is the time since the last loop().
ButtonPoll(reading, dt) ==
    /\ pc = "loop"
    /\ LET debounce == IF reading # lastButtonState THEN 0
                       ELSE Elapsed(sinceDebounce, dt, debounceDelay + 1)
           edge == debounce > debounceDelay /\ reading # buttonState
       IN /\ sinceDebounce' = debounce
          /\ buttonState' = IF edge THEN reading ELSE buttonState
          /\ lastButtonState' = reading
          /\ sinceFineSample' = Elapsed(sinceFineSample, dt, STABILIZE_DELAY)
          /\ IF edge /\ ShouldStart(reading)
             THEN /\ testRunning' = TRUE
                  /\ startTwoPassTest
                  /\ UNCHANGED testComplete
             ELSE /\ testComplete' = IF edge /\ ShouldReset(reading)
                                     THEN FALSE ELSE testComplete
                  /\ sinceSample' = Elapsed(sinceSample, dt, STABILIZE_DELAY)
                  /\ UNCHANGED <<testRunning, resultVars, curveVars, totalSteps,
                                 stepIndex, storeEvery, currentTestFreq,
                                 targetVars, coarsePhase, finePhase, pwmVars>>
    /\ pc' = "sweep"
    /\ UNCHANGED <<bandVars, sensorVars, fineSweepFreq, fineSweepEnd, fineSweepStep>>

----------------------------------------------------------------------------
(* loop(), second part: if (testRunning) { if (coarsePhase) ... else if      *)
(* (finePhase) ... }                                                        *)

RunsCoarse == testRunning /\ coarsePhase
RunsFine == testRunning /\ ~coarsePhase /\ finePhase

\* The raw swings a burst at drive frequency f can read.
SensorSwings(f) ==
    LET sw == Swing(transducer.lobes, f)
    IN IF f \in transducer.noisy THEN {sw, sw + NoiseSwing} ELSE {sw}

SkipSweep ==
    /\ pc = "sweep"
    /\ ~RunsCoarse /\ ~RunsFine
    /\ pc' = "loop"
    /\ UNCHANGED <<bandVars, resultVars, curveVars, coarseVars, targetVars,
                   fineVars, sensorVars, phaseVars, buttonVars, pwmVars>>

----------------------------------------------------------------------------
(* processCoarseSweep()                                                     *)

\* if (currentTestFreq > END_FREQ)
CoarseDone == currentTestFreq > END_FREQ

\* ShouldStore without the capacity test and without the decimation.
ShouldStoreEveryStep(n, step, every, f) == TRUE

\* if (dataPoints < MAX_DATA_POINTS) if (stepIndex % storeEvery == 0 || ...)
ShouldStore(n, step, every, f) ==
    n < MAX_DATA_POINTS /\ (step % every = 0 \/ n = 0 \/ f >= END_FREQ)

\* The end of the coarse phase up to and including prepareFineTargets().
CoarseEnd ==
    /\ pc = "sweep"
    /\ RunsCoarse
    /\ CoarseDone
    /\ stopPWM
    /\ coarsePhase' = FALSE
    /\ fineTargets' = PrepareFineTargets(freqs, amplitudes, resonantFreq, maxAmplitude)
    /\ fineTargetCount' = Len(fineTargets')
    /\ pc' = "prepared"
    /\ UNCHANGED <<bandVars, resultVars, curveVars, coarseVars, currentFineIndex,
                   fineVars, sensorVars, testRunning, testComplete, finePhase,
                   buttonVars>>

\* Stabilized without the comparison with STABILIZE_DELAY.
StabilizedAtOnce(since) == TRUE

\* if (currentMillis - lastSampleTime >= STABILIZE_DELAY), and the same test
\* on fineLastSampleTime in processFineSweep()
Stabilized(since) == since >= STABILIZE_DELAY

\* RaisesCoarseMaximum with >= in place of >.
RaisesCoarseMaximumOnTie(amp) == amp >= maxAmplitude

\* if (currAmplitude > maxAmplitude)
RaisesCoarseMaximum(amp) == amp > maxAmplitude

\* The stabilization interval has not elapsed: the call does nothing.
CoarseWait ==
    /\ pc = "sweep"
    /\ RunsCoarse
    /\ ~CoarseDone
    /\ ~Stabilized(sinceSample)
    /\ pc' = "loop"
    /\ UNCHANGED <<bandVars, resultVars, curveVars, coarseVars, targetVars,
                   fineVars, sensorVars, phaseVars, buttonVars, pwmVars>>

\* One coarse step: measure, track the maximum, store, advance.
CoarseStep(sw) ==
    /\ pc = "sweep"
    /\ RunsCoarse
    /\ ~CoarseDone
    /\ Stabilized(sinceSample)
    /\ LET m == measureCurrent(sw)
           amp == m.lastIpk
       IN /\ lastIpk' = m.lastIpk
          /\ lastIpp' = m.lastIpp
          /\ currAmplitude' = amp
          /\ IF RaisesCoarseMaximum(amp)
             THEN /\ maxAmplitude' = amp
                  /\ resonantFreq' = currentTestFreq
                  /\ resonantIpk' = amp
                  /\ resonantIpp' = m.lastIpp
             ELSE UNCHANGED <<maxAmplitude, resonantFreq, resonantIpk, resonantIpp>>
          /\ IF ShouldStore(dataPoints, stepIndex, storeEvery, currentTestFreq)
             THEN /\ freqs' = Append(freqs, currentTestFreq)
                  /\ amplitudes' = Append(amplitudes, amp)
                  /\ dataPoints' = dataPoints + 1
             ELSE UNCHANGED curveVars
    /\ currentTestFreq' = currentTestFreq + FREQ_STEP
    /\ stepIndex' = stepIndex + 1
    /\ setFrequency(currentTestFreq + FREQ_STEP)
    /\ sinceSample' = 0
    /\ pc' = "loop"
    /\ UNCHANGED <<bandVars, bestHarmFreq, bestHarmAmp, totalSteps, storeEvery,
                   targetVars, fineVars, phaseVars, buttonVars>>

\* startFineTarget(index) on the targets as they stand; the caller records
\* fineLastSampleTime.
startFineTarget(targets, index) ==
    IF index < 0 \/ index >= fineTargetCount
    THEN /\ fineTargets' = targets
         /\ UNCHANGED <<fineSweepFreq, fineSweepEnd, fineSweepStep, pwmVars>>
    ELSE LET center == targets[index + 1].center
         IN /\ fineSweepFreq' = FineStartOf(center)
            /\ fineSweepEnd' = FineEndOf(center)
            /\ fineSweepStep' = FINE_STEP
            /\ fineTargets' = ResetTarget(targets, index + 1)
            /\ setFrequency(FineStartOf(center))

\* HasTargets asking for a second target.
HasTargetsBeyondFirst == fineTargetCount > 1

\* if (fineTargetCount > 0)
HasTargets == fineTargetCount > 0

\* if (fineTargetCount > 0): the fine phase starts at target 0.
EnterFine ==
    /\ pc = "prepared"
    /\ HasTargets
    /\ currentFineIndex' = 0
    /\ startFineTarget(fineTargets, 0)
    /\ sinceFineSample' = 0
    /\ finePhase' = TRUE
    /\ pc' = "loop"
    /\ UNCHANGED <<bandVars, resultVars, curveVars, coarseVars, fineTargetCount,
                   sensorVars, testRunning, testComplete, coarsePhase, buttonVars>>

\* else: no target, the harmonic comes from the coarse curve.
CompleteFromCoarse ==
    /\ pc = "prepared"
    /\ ~HasTargets
    /\ LET h == ComputeBestHarmonicFromCoarse(HarmNow, freqs, amplitudes,
                                              resonantFreq, maxAmplitude)
       IN bestHarmFreq' = h.freq /\ bestHarmAmp' = h.amp
    /\ testRunning' = FALSE
    /\ testComplete' = TRUE
    /\ pc' = "loop"
    /\ UNCHANGED <<bandVars, resonantFreq, maxAmplitude, resonantIpk, resonantIpp,
                   curveVars, coarseVars, targetVars, fineVars, sensorVars,
                   coarsePhase, finePhase, buttonVars, pwmVars>>

----------------------------------------------------------------------------
(* processFineSweep()                                                       *)

\* if (currentFineIndex >= fineTargetCount)
FineDone == currentFineIndex >= fineTargetCount

\* RaisesMaximum without the comparison with the global maximum.
RaisesMaximumPerTarget(avgAmp, targetBest) == avgAmp > targetBest

\* if (avgAmp > bestAmp) { ... if (avgAmp > maxAmplitude) { ... } }
RaisesMaximum(avgAmp, targetBest) == avgAmp > targetBest /\ avgAmp > maxAmplitude

\* NextFineIndex without the increment.
NextFineIndexStuck(index) == index

\* currentFineIndex++
NextFineIndex(index) == index + 1

\* if (fineSweepFreq + fineSweepStep > fineSweepEnd)
WindowExhausted == fineSweepFreq + fineSweepStep > fineSweepEnd

FineEnd ==
    /\ pc = "sweep"
    /\ RunsFine
    /\ FineDone
    /\ finePhase' = FALSE
    /\ LET h == ComputeBestHarmonicFromFine(HarmNow, fineTargets, freqs,
                                            amplitudes, resonantFreq,
                                            maxAmplitude)
       IN bestHarmFreq' = h.freq /\ bestHarmAmp' = h.amp
    /\ testRunning' = FALSE
    /\ testComplete' = TRUE
    /\ pc' = "loop"
    /\ UNCHANGED <<bandVars, resonantFreq, maxAmplitude, resonantIpk, resonantIpp,
                   curveVars, coarseVars, targetVars, fineVars, sensorVars,
                   coarsePhase, buttonVars, pwmVars>>

FineWait ==
    /\ pc = "sweep"
    /\ RunsFine
    /\ ~FineDone
    /\ ~Stabilized(sinceFineSample)
    /\ pc' = "loop"
    /\ UNCHANGED <<bandVars, resultVars, curveVars, coarseVars, targetVars,
                   fineVars, sensorVars, phaseVars, buttonVars, pwmVars>>

\* One fine step: measure, track the target's and the global best, advance
\* within the window or to the next target.
FineStep(sw) ==
    /\ pc = "sweep"
    /\ RunsFine
    /\ ~FineDone
    /\ Stabilized(sinceFineSample)
    /\ LET m == measureCurrent(sw)
           avgAmp == m.lastIpk
           i == currentFineIndex + 1
           updated == IF avgAmp > fineTargets[i].bestAmp
                      THEN [fineTargets EXCEPT ![i].bestAmp = avgAmp,
                                               ![i].bestFreq = fineSweepFreq]
                      ELSE fineTargets
       IN /\ lastIpk' = m.lastIpk
          /\ lastIpp' = m.lastIpp
          /\ IF RaisesMaximum(avgAmp, fineTargets[i].bestAmp)
             THEN /\ maxAmplitude' = avgAmp
                  /\ resonantFreq' = fineSweepFreq
                  /\ resonantIpk' = avgAmp
                  /\ resonantIpp' = m.lastIpp
             ELSE UNCHANGED <<maxAmplitude, resonantFreq, resonantIpk, resonantIpp>>
          /\ IF WindowExhausted
             THEN /\ currentFineIndex' = NextFineIndex(currentFineIndex)
                  /\ IF NextFineIndex(currentFineIndex) < fineTargetCount
                     THEN startFineTarget(updated, NextFineIndex(currentFineIndex))
                     ELSE /\ fineTargets' = updated
                          /\ UNCHANGED <<fineSweepFreq, fineSweepEnd,
                                         fineSweepStep, pwmVars>>
             ELSE /\ fineSweepFreq' = fineSweepFreq + fineSweepStep
                  /\ setFrequency(fineSweepFreq + fineSweepStep)
                  /\ fineTargets' = updated
                  /\ UNCHANGED <<currentFineIndex, fineSweepEnd, fineSweepStep>>
    /\ sinceFineSample' = 0
    /\ pc' = "loop"
    /\ UNCHANGED <<bandVars, bestHarmFreq, bestHarmAmp, curveVars, coarseVars,
                   fineTargetCount, currAmplitude, phaseVars, buttonVars>>

----------------------------------------------------------------------------

Next ==
    \/ \E reading \in {"LOW", "HIGH"}, dt \in {0, LoopMs} : ButtonPoll(reading, dt)
    \/ SkipSweep
    \/ CoarseEnd
    \/ CoarseWait
    \/ \E sw \in SensorSwings(currentTestFreq) : CoarseStep(sw)
    \/ EnterFine
    \/ CompleteFromCoarse
    \/ FineEnd
    \/ FineWait
    \/ \E sw \in SensorSwings(fineSweepFreq) : FineStep(sw)

Spec == Init /\ [][Next]_vars

\* The clock keeps advancing and loop() keeps being called: a poll after
\* LoopMs more milliseconds happens again and again, and the sweep dispatch
\* that follows every poll is taken.
ClockAdvances == \E reading \in {"LOW", "HIGH"} : ButtonPoll(reading, LoopMs)

\* The loads the fair behaviours are checked on.
FairLoads == { Silent, FourLobes, TwoRivals, BandEdges }

FairSpec ==
    InitOn(FairLoads) /\ [][Next]_vars /\ SF_vars(ClockAdvances) /\ WF_vars(Next)

----------------------------------------------------------------------------
(* The sketch with a misconfigured entry in bands[]: the end of the band is *)
(* below its start, equal to it, or one coarse step above it.  Silent and   *)
(* SingleLobe are kept beside them as loads on a band of the shipped table. *)

InvertedBand == Load(<<46000, 20000>>, {Lobe(46000, 100, 50)}, {})
PointBand == Load(<<32000, 32000>>, {Lobe(32000, 100, 50)}, {})
TwoStepBand == Load(<<32000, 32050>>, {Lobe(32000, 100, 50)}, {32050})

DegenerateLoads == { InvertedBand, PointBand, TwoStepBand, Silent, SingleLobe }

DegenerateSpec == InitOn(DegenerateLoads) /\ [][Next]_vars

----------------------------------------------------------------------------
(* The two harmonic classifiers on their own: computeBestHarmonicFromCoarse *)
(* and computeBestHarmonicFromFine called, in any order and any number of   *)
(* times, on a finished sweep's curve, targets and fundamental.             *)

\* The frequencies of the curves the classifiers are run on.
CurveFreqs == <<8000, 16000, 24000, 32000, 48000, 61000, 64000, 72000>>

\* The amplitudes a curve point takes, in milliampere.
CurveAmps == {0, 300, 1000}

\* The curve of the scenario: peaks at 32000 (1.0 A) and 64000 (0.3 A).
ScenarioCurve == <<0, 0, 0, 1000, 0, 0, 300, 0>>

\* The curves the classifiers are run on together with fine targets.
TargetCurves == { ScenarioCurve, <<0, 300, 0, 1000, 0, 300, 0, 0>> }

\* Refined targets: best frequency and best amplitude of a fine window.
RefinedTargets ==
    { Target(c, f, a) : c \in {32000}, f \in {32010, 32040, 63990}, a \in {0, 290} }
        \cup { Target(16000, 16000, 310) }

TargetLists ==
    {<< >>} \cup { <<t>> : t \in RefinedTargets }
            \cup { <<t, u>> : t \in RefinedTargets, u \in RefinedTargets }

\* What bestHarmFreq and bestHarmAmp hold before the first call.
StaleHarms == { Harm(0, 0), Harm(61000, 5000) }

\* The maximum a coarse sweep that measured the curve am ends with: strict
\* greater-than update, so the first of the largest points.
CoarseMaximumOf(am) ==
    LET top == SetMax({am[i] : i \in 1..Len(am)})
    IN IF top = 0 THEN Harm(0, 0)
       ELSE Harm(CurveFreqs[CHOOSE i \in 1..Len(am) :
                               am[i] = top /\ \A j \in 1..(i - 1) : am[j] < top],
                 top)

classifierFrame ==
    <<bandVars, resonantFreq, maxAmplitude, resonantIpk, resonantIpp, curveVars,
      coarseVars, targetVars, fineVars, sensorVars, phaseVars, buttonVars,
      pwmVars>>

ClassifierInit ==
    /\ \E am \in [1..Len(CurveFreqs) -> CurveAmps], targets \in TargetLists,
          stale \in StaleHarms :
          /\ targets = << >> \/ am \in TargetCurves
          /\ freqs = CurveFreqs /\ amplitudes = am /\ dataPoints = Len(CurveFreqs)
          /\ resonantFreq = CoarseMaximumOf(am).freq
          /\ maxAmplitude = CoarseMaximumOf(am).amp
          /\ resonantIpk = CoarseMaximumOf(am).amp
          /\ resonantIpp = 2 * CoarseMaximumOf(am).amp
          /\ fineTargets = targets /\ fineTargetCount = Len(targets)
          /\ currentFineIndex = Len(targets)
          /\ bestHarmFreq = stale.freq /\ bestHarmAmp = stale.amp
    /\ START_FREQ = CurveFreqs[1] /\ END_FREQ = CurveFreqs[Len(CurveFreqs)]
    /\ transducer = [lobes |-> {}, noisy |-> {}]
    /\ currAmplitude = 0 /\ lastIpp = 0 /\ lastIpk = 0
    /\ testRunning = FALSE /\ testComplete = TRUE
    /\ coarsePhase = FALSE /\ finePhase = FALSE
    /\ totalSteps = Len(CurveFreqs) /\ stepIndex = Len(CurveFreqs)
    /\ storeEvery = 1 /\ currentTestFreq = END_FREQ
    /\ sinceDebounce = debounceDelay + 1
    /\ lastButtonState = "HIGH" /\ buttonState = "HIGH"
    /\ sinceSample = STABILIZE_DELAY /\ sinceFineSample = STABILIZE_DELAY
    /\ fineSweepFreq = 0 /\ fineSweepEnd = 0 /\ fineSweepStep = FINE_STEP
    /\ pwmFreq = 0 /\ pwmDuty = 0
    /\ pc = "classify"

\* A call of computeBestHarmonicFromCoarse().
computeBestHarmonicFromCoarse ==
    /\ pc \in {"classify", "coarse", "fine"}
    /\ LET h == ComputeBestHarmonicFromCoarse(HarmNow, freqs, amplitudes,
                                              resonantFreq, maxAmplitude)
       IN bestHarmFreq' = h.freq /\ bestHarmAmp' = h.amp
    /\ pc' = "coarse"
    /\ UNCHANGED classifierFrame

\* A call of computeBestHarmonicFromFine().
computeBestHarmonicFromFine ==
    /\ pc \in {"classify", "coarse", "fine"}
    /\ LET h == ComputeBestHarmonicFromFine(HarmNow, fineTargets, freqs,
                                            amplitudes, resonantFreq,
                                            maxAmplitude)
       IN bestHarmFreq' = h.freq /\ bestHarmAmp' = h.amp
    /\ pc' = "fine"
    /\ UNCHANGED classifierFrame

ClassifierNext == computeBestHarmonicFromCoarse \/ computeBestHarmonicFromFine

ClassifierSpec == ClassifierInit /\ [][ClassifierNext]_vars

----------------------------------------------------------------------------
(* Phases of the controller                                                 *)

Idle == ~testRunning /\ ~testComplete
CoarsePhase == testRunning /\ coarsePhase
Prepared == testRunning /\ ~coarsePhase /\ ~finePhase
FinePhase == testRunning /\ ~coarsePhase /\ finePhase
Complete == ~testRunning /\ testComplete

----------------------------------------------------------------------------
(* Properties                                                               *)

\* C1: in every reachable state the stored coarse curve freqs[0..dataPoints-1]
\* is in strictly increasing frequency order, with one amplitude per
\* frequency, and dataPoints never exceeds MAX_DATA_POINTS.
CurveOrderedAndBounded ==
    /\ dataPoints <= MAX_DATA_POINTS
    /\ Len(freqs) = dataPoints
    /\ Len(amplitudes) = dataPoints
    /\ \A i \in 1..(dataPoints - 1) : freqs[i] < freqs[i + 1]

\* The coarse phase has run to its end on a band with more steps than the
\* curve holds: the curve is decimated by storeEvery and ends on END_FREQ.
CurveDecimated ==
    /\ CoarsePhase
    /\ CoarseDone
    /\ storeEvery > 1
    /\ totalSteps > MAX_DATA_POINTS
    /\ stepIndex = totalSteps
    /\ dataPoints > (totalSteps - 1) \div storeEvery
    /\ freqs[dataPoints] = END_FREQ

\* C2: while a sweep runs, no step lowers maxAmplitude.
MaxAmplitudeMonotone ==
    [][testRunning => maxAmplitude' >= maxAmplitude]_vars

\* A fine step has raised the maximum above every coarse amplitude, and a
\* later target's window has measured below it.
FineRaisedMaximum ==
    /\ FinePhase
    /\ currentFineIndex > 0
    /\ currentFineIndex < fineTargetCount
    /\ maxAmplitude > fineTargets[currentFineIndex + 1].bestAmp
    /\ fineTargets[currentFineIndex + 1].bestAmp > 0
    /\ \A i \in 1..dataPoints : amplitudes[i] < maxAmplitude
    /\ resonantFreq % FREQ_STEP # 0

\* C3: every started sweep eventually reaches Complete, given that the clock
\* keeps advancing and loop() keeps being called.
SweepTerminates == testRunning ~> Complete

\* A sweep that went through the fine phase of all MAX_FINE_TARGETS targets
\* has reached Complete.
CompletedThreeTargets ==
    /\ Complete
    /\ fineTargetCount = MAX_FINE_TARGETS
    /\ currentFineIndex = fineTargetCount

\* C4: the phases follow Idle -> CoarsePhase -> (FinePhase) -> Complete ->
\* Idle; the coarse phase ends in target preparation, after which the fine
\* phase is entered, at target 0, exactly if there is a target, and otherwise
\* the harmonic is classified from the coarse curve and the sweep is Complete.
PhaseOrder ==
    [][ /\ Idle => (Idle' \/ CoarsePhase')
        /\ CoarsePhase => (CoarsePhase' \/ (Prepared' /\ pc' = "prepared"))
        /\ Prepared => \/ Prepared' /\ UNCHANGED pc
                       \/ /\ fineTargetCount > 0
                          /\ FinePhase'
                          /\ currentFineIndex' = 0
                       \/ /\ fineTargetCount = 0
                          /\ Complete'
                          /\ bestHarmFreq' =
                               ComputeBestHarmonicFromCoarse(HarmNow, freqs,
                                   amplitudes, resonantFreq,
                                   maxAmplitude).freq
        /\ FinePhase => (FinePhase' \/ Complete')
        /\ Complete => (Complete' \/ Idle')
      ]_vars

\* The fine phase has been entered at target 0 after a coarse phase that
\* prepared more than one target.
FineEnteredAtFirstTarget ==
    /\ FinePhase
    /\ pc = "loop"
    /\ currentFineIndex = 0
    /\ fineTargetCount > 1
    /\ fineSweepFreq = FineStartOf(fineTargets[1].center)

\* C5: in every Complete state the frequency generator is stopped (the last
\* generator command was stopPWM, which leaves the duty at 0).
GeneratorStoppedWhenComplete == Complete => pwmDuty = 0

\* C6: once Complete, no step starts a sweep directly, and as long as no
\* sweep is started no step changes the result, the coarse curve, the fine
\* targets or any other sweep state.
CompleteIsFrozen ==
    [][ /\ Complete => ~testRunning'
        /\ (~testRunning /\ ~testRunning') => UNCHANGED sweepVars
      ]_vars

\* loop() has been called again after a sweep with fine targets completed:
\* the button part of the call has run and the controller is still Complete.
TickedWhileComplete ==
    /\ Complete
    /\ pc = "sweep"
    /\ resonantFreq > 0
    /\ bestHarmFreq > 0
    /\ dataPoints > 0
    /\ fineTargetCount > 0

\* C7: the button part of loop() leaves a running sweep running and all its
\* state unchanged; a sweep starts only from Idle; a step that leaves
\* Complete leads to Idle and changes no sweep state.
StartHonoredOnlyWhenIdle ==
    [][ /\ (testRunning /\ pc = "loop") =>
              testRunning' /\ UNCHANGED <<sweepVars, testComplete>>
        /\ (~testRunning /\ testRunning') => Idle /\ buttonState' = "LOW"
        /\ (Complete /\ ~Complete') =>
              Idle' /\ buttonState' = "LOW" /\ UNCHANGED sweepVars
      ]_vars

\* A debounced press after a completed sweep has just returned the
\* controller to Idle, with the finished sweep's state still in place.
RestartPressReturnedToIdle ==
    /\ Idle
    /\ pc = "sweep"
    /\ buttonState = "LOW"
    /\ resonantFreq > 0
    /\ dataPoints > 0
    /\ currentFineIndex = fineTargetCount
    /\ fineTargetCount > 0

\* C8: when target preparation leaves at least one target, target 0 has the
\* coarse resonant frequency as center and best frequency and the coarse
\* maximum as best amplitude; from then to the end of the sweep no step
\* changes target 0's center.
TargetZeroIsCoarseMaximum ==
    [][ /\ (CoarsePhase /\ Prepared' /\ fineTargetCount' > 0) =>
              fineTargets'[1] = Target(resonantFreq, resonantFreq, maxAmplitude)
        /\ (testRunning /\ ~coarsePhase /\ fineTargetCount > 0) =>
              /\ fineTargetCount' = fineTargetCount
              /\ fineTargets'[1].center = fineTargets[1].center
      ]_vars

\* In the fine phase, past target 0, a fine step has moved the resonant
\* frequency away from target 0's center.
ResonanceMovedOffTargetZero ==
    /\ FinePhase
    /\ currentFineIndex >= 1
    /\ fineTargetCount > 1
    /\ resonantFreq # fineTargets[1].center

\* C9: any two distinct targets have centers more than DedupWindow apart;
\* in particular every other target is that far from target 0.
TargetsApart ==
    \A i, j \in 1..fineTargetCount :
        i < j => Abs(fineTargets[i].center - fineTargets[j].center) > DedupWindow

\* Preparation has just accepted MAX_FINE_TARGETS targets and has left out
\* the strongest peak of the curve, which lies within DedupWindow of target 0
\* without being target 0's center.
PeakNearMaximumRejected ==
    /\ pc = "prepared"
    /\ fineTargetCount = MAX_FINE_TARGETS
    /\ LET peaks == CollectPeaks(freqs, amplitudes, MinPeakAmp100(maxAmplitude, 8))
       IN \E p \in 1..Len(peaks) :
             /\ \A q \in 1..Len(peaks) : peaks[q].amp <= peaks[p].amp
             /\ peaks[p].f # fineTargets[1].center
             /\ Abs(peaks[p].f - fineTargets[1].center) <= DedupWindow
             /\ \A t \in 1..fineTargetCount : fineTargets[t].center # peaks[p].f

\* C10: a completed sweep's non-zero harmonic frequency lies more than
\* FundamentalWindow away from the resonant frequency.
HarmonicOutsideFundamentalWindow ==
    (Complete /\ bestHarmFreq # 0) =>
        Abs(bestHarmFreq - resonantFreq) > FundamentalWindow

\* C11: after computeBestHarmonicFromCoarse on a curve of at least 3 points
\* with a non-zero fundamental F, if some peak of the curve (strict local
\* maximum at or above 12% of the maximum and 0.01 A) has a frequency H with
\* H/F or F/H within 0.12 of an integer n >= 2, the reported harmonic is such
\* a peak and none of them is stronger; on the curve with peaks at 32000
\* (1.0 A) and 64000 (0.3 A) the reported harmonic is 64000.
HarmonicIsStrongestMatchingPeak ==
    LET IsPeak(i) ==
            /\ amplitudes[i] > amplitudes[i - 1]
            /\ amplitudes[i] > amplitudes[i + 1]
            /\ amplitudes[i] * 100 >= 12 * maxAmplitude
            /\ amplitudes[i] >= 10
        Multiple(h, f) ==
            \E n \in 2..(h \div f + 1) : Abs(h - n * f) * 100 <= 12 * f
        matching ==
            { i \in 2..(dataPoints - 1) :
                /\ IsPeak(i)
                /\ \/ Multiple(freqs[i], resonantFreq)
                   \/ Multiple(resonantFreq, freqs[i]) }
    IN /\ (pc = "coarse" /\ resonantFreq # 0 /\ dataPoints >= 3
                /\ matching # {}) =>
             \E i \in matching :
                /\ bestHarmFreq = freqs[i]
                /\ bestHarmAmp = amplitudes[i]
                /\ \A j \in matching : amplitudes[j] <= amplitudes[i]
       /\ (pc = "coarse" /\ freqs = CurveFreqs /\ amplitudes = ScenarioCurve) =>
             resonantFreq = 32000 /\ bestHarmFreq = 64000

\* computeBestHarmonicFromCoarse has run on a curve with fundamental 16000
\* and two harmonic peaks, 32000 (0.3 A) and 64000 (1.0 A), and has reported
\* the later and stronger one.
StrongerLaterHarmonicReported ==
    /\ pc = "coarse"
    /\ freqs = CurveFreqs
    /\ amplitudes = <<0, 1000, 0, 300, 0, 0, 1000, 0>>
    /\ resonantFreq = 16000
    /\ bestHarmFreq = 64000
    /\ bestHarmAmp = 1000


\* C12: both classifiers are read-only and idempotent.  A call leaves the
\* coarse curve, the fine targets, resonantFreq and maxAmplitude as they were,
\* and the (bestHarmFreq, bestHarmAmp) it leaves is the one the classifier
\* yields from the same inputs whatever the two globals held before the call:
\* zero, a stale result of an earlier run, or the result the call itself has
\* just left (a second call in a row changes nothing).
ClassificationIdempotent ==
    [][ /\ UNCHANGED <<freqs, amplitudes, dataPoints, fineTargets,
                       fineTargetCount, resonantFreq, maxAmplitude>>
        /\ LET left == Harm(bestHarmFreq', bestHarmAmp')
               priors == StaleHarms \cup {HarmNow, left}
           IN /\ pc' = "coarse" =>
                   \A prev \in priors :
                      ComputeBestHarmonicFromCoarse(prev, freqs, amplitudes,
                          resonantFreq, maxAmplitude) = left
              /\ pc' = "fine" =>
                   \A prev \in priors :
                      ComputeBestHarmonicFromFine(prev, fineTargets, freqs,
                          amplitudes, resonantFreq, maxAmplitude) = left
      ]_vars

\* A fine classification has replaced the stale result of an earlier run by a
\* refined target of the present one.
StaleHarmonicReplaced ==
    /\ pc = "fine"
    /\ fineTargetCount = 2
    /\ amplitudes = ScenarioCurve
    /\ fineTargets[2].bestFreq = 63990
    /\ bestHarmFreq = 63990
    /\ bestHarmAmp = 290

\* C13: at the end of the coarse phase every one of the totalSteps steps
\* START_FREQ, START_FREQ + FREQ_STEP, ... up to END_FREQ has been sampled
\* (521 of them on the band 20000..46000), no swept frequency reads more than
\* maxAmplitude and no stored amplitude exceeds it.  If some sample was
\* positive, resonantFreq is a swept frequency that read maxAmplitude and
\* every lower swept frequency read strictly less (the first point wins a
\* tie), so a single lobe at 32000 Hz leaves resonantFreq within FREQ_STEP of
\* 32000; if every sample was zero, resonantFreq and maxAmplitude are still 0.
ResonanceIsFirstCoarseMaximum ==
    (CoarsePhase /\ CoarseDone) =>
        LET swept == { START_FREQ + k * FREQ_STEP : k \in 0..(totalSteps - 1) }
            reads(f) == { measureCurrent(sw).lastIpk : sw \in SensorSwings(f) }
            least(f) == measureCurrent(Swing(transducer.lobes, f)).lastIpk
        IN /\ stepIndex = totalSteps
           /\ currentTestFreq = START_FREQ + totalSteps * FREQ_STEP
           /\ \A f \in swept : f <= END_FREQ /\ least(f) <= maxAmplitude
           /\ \A i \in 1..dataPoints :
                 freqs[i] \in swept /\ amplitudes[i] <= maxAmplitude
           /\ IF maxAmplitude > 0
              THEN /\ resonantFreq \in swept
                   /\ maxAmplitude \in reads(resonantFreq)
                   /\ \A f \in swept :
                         f < resonantFreq => least(f) < maxAmplitude
              ELSE resonantFreq = 0 /\ maxAmplitude = 0
           /\ (START_FREQ = 20000 /\ END_FREQ = 46000) => totalSteps = 521
           /\ transducer.lobes = {Lobe(32000, 100, 50)} =>
                 Abs(resonantFreq - 32000) <= FREQ_STEP

\* The coarse phase has ended on a load whose three strongest steps read the
\* same amplitude: the first of them, which is not a stored point, is the
\* resonance.
FirstOfTiedMaximaKept ==
    /\ CoarsePhase /\ CoarseDone
    /\ resonantFreq = 20450
    /\ measureCurrent(Swing(transducer.lobes, 20500)).lastIpk = maxAmplitude
    /\ measureCurrent(Swing(transducer.lobes, 20550)).lastIpk = maxAmplitude
    /\ \A i \in 1..dataPoints : freqs[i] # resonantFreq

\* C13 as stated, for every sweep: at the end of the coarse phase resonantFreq
\* is the lowest swept frequency whose amplitude equals the maximum over all
\* coarse steps.
ResonanceIsLowestSweptMaximum ==
    (CoarsePhase /\ CoarseDone) =>
        LET swept == { START_FREQ + k * FREQ_STEP : k \in 0..(totalSteps - 1) }
            least(f) == measureCurrent(Swing(transducer.lobes, f)).lastIpk
        IN /\ resonantFreq \in swept
           /\ \A f \in swept : least(f) <= maxAmplitude
           /\ \A f \in swept : f < resonantFreq => least(f) < maxAmplitude

\* C14: a completed sweep of a flat curve, on which every coarse step reads
\* the same amplitude below the absolute floor of 0.01 A (10 mA), reports
\* resonantFreq = 0 and bestHarmFreq = 0, and every index used into the
\* curve and the target list was in range.
FlatCurveReportsNothing ==
    LET swept == { START_FREQ + k * FREQ_STEP : k \in 0..(totalSteps - 1) }
        flat == /\ transducer.noisy = {}
                /\ \A f \in swept :
                      measureCurrent(Swing(transducer.lobes, f)).lastIpk
                          = maxAmplitude
    IN (Complete /\ maxAmplitude < 10 /\ flat) =>
          /\ resonantFreq = 0
          /\ bestHarmFreq = 0
          /\ dataPoints <= MAX_DATA_POINTS
          /\ currentFineIndex <= fineTargetCount
          /\ fineTargetCount <= MAX_FINE_TARGETS

\* C15: on a band whose end is not above its start the sweep is a single
\* step: a completed sweep has taken exactly one sample, at START_FREQ, and
\* holds it as its only coarse point.
MisconfiguredBandTakesOneSample ==
    (Complete /\ END_FREQ <= START_FREQ) =>
        /\ totalSteps = 1
        /\ stepIndex = 1
        /\ dataPoints = 1
        /\ freqs = <<START_FREQ>>
        /\ currentTestFreq = START_FREQ + FREQ_STEP

\* C16: while a fine target is being swept, the frequency the generator is
\* set to, which is the frequency of the next fine sample, lies in the
\* target's window clamped to the band: from max(START_FREQ, center -
\* FINE_WINDOW) to min(END_FREQ, center + FINE_WINDOW).
FineSamplesInsideBand ==
    (RunsFine /\ ~FineDone) =>
        LET center == fineTargets[currentFineIndex + 1].center
        IN /\ pwmFreq = fineSweepFreq
           /\ fineSweepFreq >= Max(START_FREQ, center - FINE_WINDOW)
           /\ fineSweepFreq <= Min(END_FREQ, center + FINE_WINDOW)

\* C17: after a sweep with a fine phase, if some refined target's best
\* frequency is within 8% of an integer multiple n >= 2 of the fundamental,
\* or the fundamental within 8% of such a multiple of it, the reported
\* harmonic is one of those targets and none of them has a larger amplitude,
\* whatever the amplitudes of the targets that satisfy no ratio.
FineHarmonicPrefersIntegerRatios ==
    (Complete /\ fineTargetCount > 0 /\ resonantFreq # 0) =>
        LET Multiple(a, b) ==
                \E n \in 2..5 : Abs(a - n * b) * 100 <= 8 * b
            ratio == { i \in 1..fineTargetCount :
                        /\ fineTargets[i].bestFreq # 0
                        /\ fineTargets[i].bestAmp > 0
                        /\ \/ Multiple(fineTargets[i].bestFreq, resonantFreq)
                           \/ Multiple(resonantFreq, fineTargets[i].bestFreq) }
        IN ratio # {} =>
              /\ \E i \in ratio : /\ bestHarmFreq = fineTargets[i].bestFreq
                                   /\ bestHarmAmp = fineTargets[i].bestAmp
              /\ \A i \in ratio : fineTargets[i].bestAmp <= bestHarmAmp

\* C18: after a sweep with a fine phase in which no refined target's best
\* frequency is within 8% of an integer ratio n >= 2 to the fundamental, in
\* either direction, the reported (bestHarmFreq, bestHarmAmp) is the result
\* of computeBestHarmonicFromCoarse on the coarse curve.
FineWithoutRatioFallsBackToCoarse ==
    (Complete /\ fineTargetCount > 0 /\ resonantFreq # 0) =>
        LET Multiple(a, b) ==
                \E n \in 2..5 : Abs(a - n * b) * 100 <= 8 * b
            ratio == { i \in 1..fineTargetCount :
                        /\ fineTargets[i].bestFreq # 0
                        /\ fineTargets[i].bestAmp > 0
                        /\ \/ Multiple(fineTargets[i].bestFreq, resonantFreq)
                           \/ Multiple(resonantFreq, fineTargets[i].bestFreq) }
        IN ratio = {} =>
              HarmNow = ComputeBestHarmonicFromCoarse(HarmNow, freqs, amplitudes,
                                                      resonantFreq, maxAmplitude)

\* C19: a call of processCoarseSweep (processFineSweep) while the sweep runs,
\* the phase is not exhausted and less than STABILIZE_DELAY milliseconds have
\* passed since the last step is a no-op: no sample is taken, the generator
\* is not commanded, and the current frequency, the step index, the curve,
\* the maximum, the targets and the time of the last step are unchanged.
EarlyTickIsNoOp ==
    [][ LET early ==
              \/ RunsCoarse /\ ~CoarseDone /\ sinceSample < STABILIZE_DELAY
              \/ RunsFine /\ ~FineDone /\ sinceFineSample < STABILIZE_DELAY
        IN (pc = "sweep" /\ early) =>
              /\ pc' = "loop"
              /\ UNCHANGED <<resultVars, curveVars, coarseVars, targetVars,
                             fineVars, sensorVars, phaseVars, pwmVars>>
      ]_vars

\* loop() has called processFineSweep on a fine window already under way
\* before the stabilization interval since the last fine step has passed.
FineTickBeforeStabilized ==
    /\ pc = "sweep"
    /\ RunsFine /\ ~FineDone
    /\ sinceFineSample < STABILIZE_DELAY
    /\ fineSweepFreq > FineStartOf(fineTargets[currentFineIndex + 1].center)
    /\ pwmFreq = fineSweepFreq

\* C20: when the coarse phase ends with fewer than 3 stored points or with
\* resonantFreq = 0, prepareFineTargets leaves no target, the fine phase is
\* not entered, and the sweep completes from the coarse curve with
\* bestHarmFreq = 0 and bestHarmAmp = 0; the curve stays within its capacity
\* and no target index is used.
NoFinePhaseWithoutResonance ==
    [][ LET nothing == dataPoints < 3 \/ resonantFreq = 0
        IN /\ (pc = "sweep" /\ CoarsePhase /\ CoarseDone /\ nothing) =>
                 /\ fineTargetCount' = 0
                 /\ fineTargets' = << >>
                 /\ Prepared' /\ pc' = "prepared"
           /\ (pc = "prepared" /\ nothing) =>
                 /\ Complete' /\ ~finePhase'
                 /\ bestHarmFreq' = 0 /\ bestHarmAmp' = 0
                 /\ fineTargetCount' = 0
                 /\ dataPoints' = Len(freqs') /\ dataPoints' <= MAX_DATA_POINTS
                 /\ UNCHANGED <<curveVars, targetVars, fineVars>>
      ]_vars

\* A sweep of two coarse steps has completed with a resonance and no target.
CompletedWithTwoPoints ==
    /\ Complete
    /\ dataPoints = 2
    /\ resonantFreq = START_FREQ
    /\ maxAmplitude > 0
    /\ fineTargetCount = 0
    /\ bestHarmFreq = 0

\* C21: in every reachable state fineTargetCount is between 0 and
\* MAX_FINE_TARGETS and is the number of targets held, and currentFineIndex is
\* between 0 and fineTargetCount; and every step of the fine phase, or into
\* it, that writes a target does so with currentFineIndex < fineTargetCount,
\* keeps the number of targets, and writes only the target it is sweeping and
\* the target startFineTarget resets, whose index is again below
\* fineTargetCount.
TargetsBoundedAndIndexed ==
    /\ [](/\ fineTargetCount \in 0..MAX_FINE_TARGETS
          /\ Len(fineTargets) = fineTargetCount
          /\ currentFineIndex \in 0..fineTargetCount
          /\ RunsFine => fineTargetCount > 0)
    /\ [][ (~coarsePhase /\ testRunning /\ fineTargets' # fineTargets) =>
              /\ currentFineIndex < fineTargetCount
              /\ fineTargetCount' = fineTargetCount
              /\ Len(fineTargets') = Len(fineTargets)
              /\ \A t \in 1..fineTargetCount :
                    fineTargets'[t] # fineTargets[t] =>
                       \/ t = currentFineIndex + 1
                       \/ /\ t = currentFineIndex' + 1
                          /\ currentFineIndex' < fineTargetCount
                          /\ fineTargets'[t].bestAmp = 0
                          /\ fineTargets'[t].bestFreq = fineTargets'[t].center
      ]_vars

\* The fine phase is sweeping the last of MAX_FINE_TARGETS targets and has
\* written a refined best point into it.
LastTargetWritten ==
    /\ RunsFine
    /\ fineTargetCount = MAX_FINE_TARGETS
    /\ currentFineIndex = MAX_FINE_TARGETS - 1
    /\ fineTargets[MAX_FINE_TARGETS].bestAmp > 0
    /\ fineTargets[MAX_FINE_TARGETS].bestFreq
           # fineTargets[MAX_FINE_TARGETS].center

\* C22: during the coarse phase of a sweep on a band with END_FREQ >
\* START_FREQ, whenever the generator is driven (its duty is not 0) the
\* frequency it was last commanded to by setFrequency lies between
\* START_FREQ and END_FREQ.
CoarseDriveInsideBand ==
    (CoarsePhase /\ END_FREQ > START_FREQ /\ pwmDuty # 0) =>
        /\ pwmFreq >= START_FREQ
        /\ pwmFreq <= END_FREQ

============================================================================
